---------------------------- MODULE Spec2Model ----------------------------
(***************************************************************************)
(* Approach MDP (projectUtil.py) and the policy rollout of plotTrajectory  *)
(* (plotUtil.py).                                                          *)
(*                                                                         *)
(* Numbers.  The program computes in Python floats; TLC computes in 32-bit *)
(* integers.  Every physical quantity is therefore held as an integer in a *)
(* stated unit (fixed point), and every formula of the source is evaluated *)
(* in the order the source evaluates it, with the divisions placed so that *)
(* no intermediate value leaves 32 bits.  Altitude (m), speed (m/s),       *)
(* configuration and distance (m) are the integers of the source.          *)
(*   density          1e-4 kg/m^3        temperature   1e-2 K              *)
(*   true airspeed    cm/s               force         N                   *)
(*   energy           J                  fuel          g                   *)
(*   lift coefficient 1e-3               drag coeff.   1e-6                *)
(*   probability      1/100                                                *)
(* A state is the 4-tuple <<altitude, speed, config, distance>>; Python's  *)
(* state[k] is state[k+1] here, and a list indexed by config is indexed    *)
(* by config+1.                                                            *)
(***************************************************************************)
EXTENDS Integers, Sequences, FiniteSets, TLC

(***************************************************************************)
(* Bounds of the model.                                                    *)
(***************************************************************************)
\* start altitudes k*dA, k in 1..MaxLowAltSegments
MaxLowAltSegments == 1
\* start altitudes FAF altitude + k*dA, k in 0..MaxAltSegments
MaxAltSegments == 1
\* start speeds minSpeed[c] + k*dS and maxSpeed[c] - k*dS, k in 0..MaxSpeedSteps
MaxSpeedSteps == 1
\* start distances k*dD/2, k in 0..MaxStartHalfSegments
MaxStartHalfSegments == 3
\* start distances of a rollout k*dD/2, k in 0..MaxRolloutHalfSegments
MaxRolloutHalfSegments == 4
\* the policy holds entries for states perturbed by 1..PolicyRadius (and by
\* the last perturbation the search tries) and none between
PolicyRadius == 2
\* passes of the search loop that are followed
MaxSearchPasses == 1003

(***************************************************************************)
(* Arithmetic helpers.                                                     *)
(***************************************************************************)
Max(x, y) == IF x >= y THEN x ELSE y

Abs(x) == IF x >= 0 THEN x ELSE -x

RECURSIVE sqrtIter(_, _)
sqrtIter(n, x) ==
    LET y == (x + n \div x) \div 2
    IN  IF y >= x THEN x ELSE sqrtIter(n, y)

\* floor of the square root (Newton's iteration from above)
isqrt(n) == IF n <= 0 THEN 0 ELSE sqrtIter(n, IF n < 46340 THEN n ELSE 46340)

\* x ** 0.5 for x in 1e-4 units, result in 1e-4 units
sqrt4(x) == isqrt(x * 10000)

\* product of two 1e-4 fixed-point numbers
mul4(x, y) == (x * y) \div 10000

\* x ** 2 for x in 1e-4 units
sq4(x) == mul4(x, x)

(***************************************************************************)
(* class ISA                                                               *)
(***************************************************************************)
T_0 == 28815      \* 15+273.15 K, in 1e-2 K
rho_0 == 12250    \* 1.225 kg/m^3, in 1e-4 kg/m^3
R == 8314         \* 8.31432 Nm/molK, in 1e-3
M_g == 28964      \* 0.0289644 kg/mol, in 1e-6
g == 9806         \* 9.80665 m/s^2, in 1e-3
L_b == -65        \* -0.0065 K/m, in 1e-4 K/m
h_t == 11000      \* m

\* g*M_g/R in 1e-6 K/m
gMR == (g * M_g) \div R

\* temperature at altitude, 1e-2 K
getT(alt) ==
    IF alt > h_t THEN T_0 + (L_b * h_t) \div 100
    ELSE T_0 + (L_b * alt) \div 100

\* exp(-z) for z >= 0 in 1e-4 units: exp(-z/16)**16 with the cubic
\* Taylor polynomial for exp(-z/16)
expTaylor(u) == 10000 - u + sq4(u) \div 2 - mul4(sq4(u), u) \div 6

expNeg(z) == sq4(sq4(sq4(sq4(expTaylor(z \div 16)))))

\* (1 - L_b*alt/T_0) ** (1 + g*M_g/R/L_b) in 1e-4 units.  The exponent is
\* 1 - 5.2559 = -4.2559 and is taken as -17/4: the seventeenth power of
\* the reciprocal, then two square roots.
pow17(r) == mul4(sq4(sq4(sq4(sq4(r)))), r)

powerLaw(alt) ==
    sqrt4(sqrt4(pow17(100000000 \div (10000 - (L_b * alt * 100) \div T_0))))

\* density at and below the tropopause, 1e-4 kg/m^3
rhoTroposphere(alt) == mul4(rho_0, powerLaw(alt))

\* density at altitude, 1e-4 kg/m^3; rho_t = self.getRho(self.h_t) is the
\* value of the lower branch at h_t
getRho(alt) ==
    IF alt > h_t
    THEN mul4(rhoTroposphere(h_t), expNeg(((alt - h_t) * gMR) \div getT(alt)))
    ELSE rhoTroposphere(alt)

(***************************************************************************)
(* class aircraft, constructed as b737 in MDPdemo.py                       *)
(***************************************************************************)
mass == 55000                       \* kg
eta == 33                           \* 0.33, in 1e-2
idleBurnRate == 600000000 \div 3600 \* 600./3600 kg/s, in mg/s
minSpeed == <<90, 80, 70, 65>>
maxSpeed == <<150, 115, 100, 90>>
b == 35                             \* m
AR == 945                           \* 9.45, in 1e-2
cDp == <<16500, 18000, 20000, 23000, 30000>>   \* 1e-6
e == 8                              \* 0.8, in 1e-1

\* environment.g * self.mass, N
weight == (g * mass) \div 1000

\* 0.5 * environment.getRho(0) * speed**2 * (self.b**2 / self.AR), N
dynPressureArea(speed) ==
    ((((getRho(0) * speed * speed) \div 2) \div 10000) * (b * b) * 100) \div AR

\* lift coefficient for level flight, 1e-3
getcL(state) == (weight * 1000) \div dynPressureArea(state[2])

\* self.e * self.AR * math.pi, in 1e-2
eARpi == (e * AR * 31416) \div 100000

\* drag coefficient, 1e-6
getcD(state) ==
    LET cL == getcL(state)
    IN  cDp[state[3] + 1] + (cL * cL * 100) \div eARpi

\* drag force in N
getD(state) == ((dynPressureArea(state[2]) \div 100) * getcD(state)) \div 10000

(***************************************************************************)
(* class ApproachMDP, constructed as mdp737 in MDPdemo.py (dDist = 1)      *)
(***************************************************************************)
FAFstate == <<1000, 70, 3>>
kFuel == 430                        \* 43e6 J/kg, in 1e5 J/kg
dDist == 1
dD == 1000 * dDist
dA == 50 * dDist
dS == 5 * dDist

getDecel(state) == dS

getDescend(state) == dA

\* EAS * (rho0 / rhoAlt)**0.5 for the densities rho0 = getRho(0) and
\* rhoAlt = getRho(alt), cm/s
trueAirspeed(rho0, rhoAlt, EAS) ==
    (EAS * sqrt4((rho0 * 10000) \div rhoAlt)) \div 100

\* altAfter of getCost
altAfter(state, action) ==
    IF action = "climb" THEN state[1] + dA
    ELSE IF action = "descend" THEN state[1] - getDescend(state)
    ELSE state[1]

\* TASafter of getCost, cm/s
TASafter(state, action, TAS) ==
    IF action = "accel" THEN TAS + dS * 100
    ELSE IF action = "decel" THEN TAS - getDecel(state) * 100
    ELSE TAS

\* fuel use of one segment in g
getCost(state, action) ==
    LET alt          == state[1]
        EAS          == state[2]
        rho0         == getRho(0)
        rhoAlt       == getRho(alt)
        TAS          == trueAirspeed(rho0, rhoAlt, EAS)
        maneuverCost == 0
        TASa         == TASafter(state, action, TAS)
        EdD          == (dD * sqrt4((rhoAlt * 10000) \div rho0)) \div 10000
        Ereq         == weight * (altAfter(state, action) - alt)
                          + EdD * getD(state)
                          + (((TASa * TASa - TAS * TAS) \div 1000) * (mass \div 2)) \div 10
        minFuel      == (idleBurnRate * dD) \div (TAS * 10)
        fuelUsed     == Max(Ereq \div (eta * kFuel), minFuel)
    IN  fuelUsed + maneuverCost

AllActions == <<"climb", "level", "retract", "extend", "descend", "decel", "accel">>

\* the list of actions possible from state, in the order they are appended
actions(state) ==
    LET altitude == state[1]
        speed    == state[2]
        config   == state[3]
    IN  <<"climb", "level">>
        \o (IF config > 0 /\ speed >= minSpeed[config]
            THEN <<"retract">> ELSE <<>>)
        \o (IF config < Len(minSpeed) - 1 /\ speed <= maxSpeed[config + 2]
            THEN <<"extend">> ELSE <<>>)
        \o (IF altitude > getDescend(state) THEN <<"descend">> ELSE <<>>)
        \o (IF speed >= minSpeed[config + 1] + getDecel(state)
            THEN <<"decel">> ELSE <<>>)
        \o (IF speed <= maxSpeed[config + 1] - dS THEN <<"accel">> ELSE <<>>)

(***************************************************************************)
(* succAndProbReward.  An outcome is <<newState, prob, reward>>.  A reward *)
(* is the pair <<p, f>> standing for p * 1e8 kg + f g: the overshoot       *)
(* penalty is a multiple of 1e8 kg and does not fit 32 bits in grams.      *)
(***************************************************************************)
\* mutant: the end test compares altitude, speed and config only
isEnd_ignoresDistance(state) == SubSeq(state, 1, 3) = FAFstate

\* state == self.FAFstate + (0,)
isEnd(state) == state = FAFstate \o <<0>>

\* mutant: a state exactly at distance 0 is flown on
pastFAF_strict(state) == state[4] < 0

\* state[3] <= 0
pastFAF(state) == state[4] <= 0

\* the cost of arriving above/below the FAF, in 1e8 kg:
\* 10000 * sum(10000000 * (x - y)**2) + 100000000 * abs(config difference)
overshootCost(state) ==
    1000 * ((state[1] - FAFstate[1]) * (state[1] - FAFstate[1])
            + (state[2] - FAFstate[2]) * (state[2] - FAFstate[2]))
      + Abs(state[3] - FAFstate[3])

\* mutant: the successor keeps the distance of the overshooting state
overshootOutcomes_keepsDistance(state) ==
    << <<FAFstate \o <<state[4]>>, 100, <<-overshootCost(state), 0>> >> >>

overshootOutcomes(state) ==
    << <<FAFstate \o <<0>>, 100, <<-overshootCost(state), 0>> >> >>

\* mutant: the distance is decremented by the speed step
nextDistance_speedStep(distance) == distance - dS

\* distance -= self.dD
nextDistance(distance) == distance - dD

climbOutcomes(state, altitude, speed, config, distance, reward) ==
    LET alt2 == altitude - dA
    IN  << << <<alt2, speed, config, distance>>, 80, reward >>,
           << <<alt2 + 10, speed, config, distance>>, 10, reward >>,
           << <<alt2 - 10, speed, config, distance>>, 10, reward >> >>

\* the reward of the two other outcomes is off by a gram
descendOutcomes_rewardPerOutcome(state, altitude, speed, config, distance, reward) ==
    LET alt2 == altitude - getDescend(state)
    IN  << << <<alt2, speed, config, distance>>, 80, reward >>,
           << <<alt2 + 1, speed, config, distance>>, 10, <<reward[1], reward[2] - 1>> >>,
           << <<alt2 - 1, speed, config, distance>>, 10, <<reward[1], reward[2] + 1>> >> >>

descendOutcomes(state, altitude, speed, config, distance, reward) ==
    LET alt2 == altitude - getDescend(state)
    IN  << << <<alt2, speed, config, distance>>, 80, reward >>,
           << <<alt2 + 1, speed, config, distance>>, 10, reward >>,
           << <<alt2 - 1, speed, config, distance>>, 10, reward >> >>

\* mutant: the failed extension is listed first
extendOutcomes_failureFirst(state, altitude, speed, config, distance, reward) ==
    << << <<altitude, speed, config, distance>>, 5, reward >>,
       << <<altitude, speed, config + 1, distance>>, 95, reward >> >>

\* the extension goes two configurations on
extendOutcomes_twoNotches(state, altitude, speed, config, distance, reward) ==
    << << <<altitude, speed, config + 2, distance>>, 95, reward >>,
       << <<altitude, speed, config, distance>>, 5, reward >> >>

extendOutcomes(state, altitude, speed, config, distance, reward) ==
    << << <<altitude, speed, config + 1, distance>>, 95, reward >>,
       << <<altitude, speed, config, distance>>, 5, reward >> >>

\* mutant: the probabilities of the three-outcome actions, on two outcomes
retractOutcomes_jitterProbs(state, altitude, speed, config, distance, reward) ==
    << << <<altitude, speed, config - 1, distance>>, 80, reward >>,
       << <<altitude, speed, config, distance>>, 10, reward >> >>

retractOutcomes(state, altitude, speed, config, distance, reward) ==
    << << <<altitude, speed, config - 1, distance>>, 95, reward >>,
       << <<altitude, speed, config, distance>>, 5, reward >> >>

\* the jitter of the two other outcomes is put on the altitude
accelOutcomes_altitudeJitter(state, altitude, speed, config, distance, reward) ==
    LET speed2 == speed + dS
    IN  << << <<altitude, speed2, config, distance>>, 80, reward >>,
           << <<altitude + 1, speed2, config, distance>>, 10, reward >>,
           << <<altitude - 1, speed2, config, distance>>, 10, reward >> >>

accelOutcomes(state, altitude, speed, config, distance, reward) ==
    LET speed2 == speed + dS
    IN  << << <<altitude, speed2, config, distance>>, 80, reward >>,
           << <<altitude, speed2 + 1, config, distance>>, 10, reward >>,
           << <<altitude, speed2 - 1, config, distance>>, 10, reward >> >>

\* the speed is reduced by twice the step the legality test allows for
decelOutcomes_doubleStep(state, altitude, speed, config, distance, reward) ==
    LET speed2 == speed - 2 * getDecel(state)
    IN  << << <<altitude, speed2, config, distance>>, 80, reward >>,
           << <<altitude, speed2 + 1, config, distance>>, 10, reward >>,
           << <<altitude, speed2 - 1, config, distance>>, 10, reward >> >>

decelOutcomes(state, altitude, speed, config, distance, reward) ==
    LET speed2 == speed - getDecel(state)
    IN  << << <<altitude, speed2, config, distance>>, 80, reward >>,
           << <<altitude, speed2 + 1, config, distance>>, 10, reward >>,
           << <<altitude, speed2 - 1, config, distance>>, 10, reward >> >>

levelOutcomes(state, altitude, speed, config, distance, reward) ==
    << << <<altitude, speed, config, distance>>, 100, reward >> >>

\* fly approach segment according to chosen action
flySegment(state, action) ==
    LET reward   == <<0, -getCost(state, action)>>
        altitude == state[1]
        speed    == state[2]
        config   == state[3]
        distance == nextDistance(state[4])
    IN  IF action = "climb"
            THEN climbOutcomes(state, altitude, speed, config, distance, reward)
        ELSE IF action = "descend"
            THEN descendOutcomes(state, altitude, speed, config, distance, reward)
        ELSE IF action = "extend"
            THEN extendOutcomes(state, altitude, speed, config, distance, reward)
        ELSE IF action = "retract"
            THEN retractOutcomes(state, altitude, speed, config, distance, reward)
        ELSE IF action = "accel"
            THEN accelOutcomes(state, altitude, speed, config, distance, reward)
        ELSE IF action = "decel"
            THEN decelOutcomes(state, altitude, speed, config, distance, reward)
        ELSE levelOutcomes(state, altitude, speed, config, distance, reward)

succAndProbReward(state, action) ==
    IF isEnd(state) THEN <<>>
    ELSE IF pastFAF(state) THEN overshootOutcomes(state)
    ELSE flySegment(state, action)

discount == 1

(***************************************************************************)
(* State.  The MDP is explored as a state machine: the transition function *)
(* queried on the current state with any action, and a transition taken    *)
(* with an action that actions(state) allows and any of its outcomes.      *)
(* plotTrajectory is a second state machine over the same state: the       *)
(* neighbourhood search, the rollout loop and the final append; its        *)
(* plotting calls change nothing that is modelled.                         *)
(***************************************************************************)
VARIABLES
    state,      \* the current state of the MDP / `state` of plotTrajectory
    call,       \* the last call of succAndProbReward: arguments and result
    steps,      \* transitions taken since the start state
    d0,         \* distance of the start state
    altHalf,    \* 1 when the altitude of plotTrajectory's start state is
                \* state[1] + 0.5, a real that is no integer; 0 when it is
                \* state[1]
    pc,         \* position in plotTrajectory
    pi,         \* vi.pi, as far as it has been looked up
    oldState, i,
    action, prevAction,
    fuelUsed,
    alt, altDec, altAcc,
    dist, distDec, distAcc,
    retractionA, retractionD, extensionD, extensionA,
    EAS, TAS, velDist,
    visited     \* history: <<state, action>> of every pass of the rollout loop

startVars == <<d0, altHalf>>

mdpVars == <<state, call, steps, startVars>>

traceVars ==
    <<alt, altDec, altAcc, dist, distDec, distAcc,
      retractionA, retractionD, extensionD, extensionA, EAS, TAS, velDist>>

rolloutVars ==
    <<pc, pi, oldState, i, action, prevAction, fuelUsed, traceVars, visited>>

vars == <<mdpVars, rolloutVars>>

\* None is what a policy lookup gives for a state without entry; the
\* transition function knows no such action
ProbeActions == {AllActions[k] : k \in 1..Len(AllActions)} \cup {"None"}

StartAltitudes ==
    {k * dA : k \in 1..MaxLowAltSegments}
        \cup {FAFstate[1] + k * dA : k \in 0..MaxAltSegments}

StartSpeeds(config) ==
    {v \in {minSpeed[config + 1] + k * dS : k \in 0..MaxSpeedSteps}
             \cup {maxSpeed[config + 1] - k * dS : k \in 0..MaxSpeedSteps} :
        minSpeed[config + 1] <= v /\ v <= maxSpeed[config + 1]}

StartDistances == {(k * dD) \div 2 : k \in 0..MaxStartHalfSegments}

Configs == 0..(Len(minSpeed) - 1)

StartStates ==
    UNION {{<<a, v, c, d>> : a \in StartAltitudes, v \in StartSpeeds(c),
                             d \in StartDistances} : c \in Configs}

NoCall == [made |-> FALSE, legal |-> FALSE, st |-> <<>>, act |-> "None", ret |-> <<>>]

\* plotTrajectory's locals before it runs
RolloutIdle(p) ==
    /\ pc = p
    /\ pi = <<>>
    /\ oldState = <<>>
    /\ i = 0
    /\ action = "None"
    /\ prevAction = "None"
    /\ fuelUsed = <<0, 0>>
    /\ alt = <<>> /\ altDec = <<>> /\ altAcc = <<>>
    /\ dist = <<>> /\ distDec = <<>> /\ distAcc = <<>>
    /\ retractionA = <<>> /\ retractionD = <<>>
    /\ extensionD = <<>> /\ extensionA = <<>>
    /\ EAS = <<>> /\ TAS = <<>> /\ velDist = <<>>
    /\ visited = <<>>

Init ==
    /\ state \in StartStates
    /\ call = NoCall
    /\ steps = 0
    /\ d0 = state[4]
    /\ altHalf = 0
    /\ RolloutIdle("idle")

\* succAndProbReward(state, a) for any action a; the state stays
Probe ==
    \E a \in ProbeActions :
        /\ call' = [made |-> TRUE,
                    legal |-> \E k \in 1..Len(actions(state)) : actions(state)[k] = a,
                    st |-> state, act |-> a,
                    ret |-> succAndProbReward(state, a)]
        /\ UNCHANGED <<state, steps, startVars, rolloutVars>>

\* one transition: an action of actions(state), one of its outcomes
Fly ==
    \E k \in 1..Len(actions(state)) :
        LET a   == actions(state)[k]
            ret == succAndProbReward(state, a)
        IN  \E j \in 1..Len(ret) :
                /\ state' = ret[j][1]
                /\ call' = [made |-> TRUE, legal |-> TRUE, st |-> state,
                            act |-> a, ret |-> ret]
                /\ steps' = steps + 1
                /\ UNCHANGED <<startVars, rolloutVars>>

Next == Probe \/ Fly

Spec == Init /\ [][Next]_vars

(***************************************************************************)
(* plotTrajectory(mdpInstance, vi, csv, state).                            *)
(*                                                                         *)
(* The policy vi.pi is an input.  It is chosen entry by entry, when an     *)
(* entry is first looked up, and remembered in pi: pi[s] is the action of  *)
(* s, or "None" when the policy has no entry for s.  An entry is an action *)
(* that actions(s) allows, as a solver of this MDP produces it.            *)
(***************************************************************************)
\* the actions of actions(s), as a set
LegalActions(s) == {actions(s)[k] : k \in 1..Len(actions(s))}

\* what vi.pi.get(s) can be, s a state of integers
PolicyChoices(s) ==
    IF s \in DOMAIN pi THEN {pi[s]} ELSE LegalActions(s) \cup {"None"}

\* what vi.pi.get(state) can be for the start state: the policy is one of
\* this MDP, whose states are tuples of integers, and has no entry for an
\* altitude that is no integer
StartChoices(s) == IF altHalf = 0 THEN PolicyChoices(s) ELSE {"None"}

\* vi.pi after the lookups of the states ss[1..n], of which the last has
\* the entry v (when hit) and the others none
Looked(ss, n, hit, v) ==
    [s \in DOMAIN pi \cup {ss[k] : k \in 1..n} |->
        IF s \in DOMAIN pi THEN pi[s]
        ELSE IF hit /\ s = ss[n] THEN v
        ELSE "None"]

\* the tries with the altitude below tried before the altitude above
candidates_belowFirst(old, n) ==
    << <<old[1] - n, old[2], old[3], old[4]>>,
       <<old[1] + n, old[2], old[3], old[4]>>,
       <<old[1], old[2] + n, old[3], old[4]>>,
       <<old[1], old[2] - n, old[3], old[4]>> >>

\* the four states tried for the perturbation n, in the order of the tries
candidates(old, n) ==
    << <<old[1] + n, old[2], old[3], old[4]>>,
       <<old[1] - n, old[2], old[3], old[4]>>,
       <<old[1], old[2] + n, old[3], old[4]>>,
       <<old[1], old[2] - n, old[3], old[4]>> >>

\* no try is followed by break
breaks_never(n) == FALSE

\* the n-th try of a pass is followed by break when it finds an entry:
\* altitude+i, altitude-i and speed+i are, speed-i is not
breaks(n) == n < 4

\* i == max(oldState[:2]), the altitude being old[1] + altHalf / 2
atSearchLimit(n, old) == 2 * n = Max(2 * old[1] + altHalf, 2 * old[2])

\* The policy holds no entry for a state perturbed by more than
\* PolicyRadius, the last perturbation excepted, and none for what is no
\* state of this MDP: a negative altitude, an altitude that is no integer,
\* a speed that is not positive or is above maxSpeed[1].  The lookup of
\* such a state misses, and pi does not record it.
MayHaveEntry(old, n, c) ==
    /\ altHalf = 0
    /\ n <= PolicyRadius \/ atSearchLimit(n, old)
    /\ c[1] >= 0 /\ c[2] > 0 /\ c[2] <= maxSpeed[1]

CandidateChoices(old, n, c) ==
    IF MayHaveEntry(old, n, c) THEN PolicyChoices(c) ELSE {"None"}

\* the first m of the candidates cs that may have an entry
Recorded(old, n, cs, m) ==
    SelectSeq(SubSeq(cs, 1, m), LAMBDA c : MayHaveEntry(old, n, c))

\* mdpInstance.env.getRho(0) / mdpInstance.env.getRho(state[0]) * state[1], cm/s
rolloutTAS(s) == (((getRho(0) * 10000) \div getRho(s[1])) * s[2]) \div 100

\* fuelUsed += reward
subReward_adds(fuel, reward) == <<fuel[1] + reward[1], fuel[2] + reward[2]>>

\* fuelUsed -= reward
subReward(fuel, reward) == <<fuel[1] - reward[1], fuel[2] - reward[2]>>

\* while state[3] > dD
loopContinues_early(s) == s[4] > dD

\* while state[3] >= 0
loopContinues_atZero(s) == s[4] >= 0

\* while state[3] > 0
loopContinues(s) == s[4] > 0

AppendIf(list, cond, x) == IF cond THEN Append(list, x) ELSE list

\* the else branch as that of one elif chain over the four tested actions
OtherAction_flapsExcluded(a) == a \notin {"decel", "accel", "extend", "retract"}

\* the else branch of the decel / accel test: every other action
OtherAction(a) == a # "decel" /\ a # "accel"

\* what `prevAction is not action` can give: the test is of the identity of
\* the two objects.  Different values are different objects, None is one
\* object, and in the first pass both are the value of the one entry looked
\* up twice; two equal strings of different entries are one object or two.
IsNotOutcomes(prev, act, firstPass) ==
    IF prev # act THEN {TRUE}
    ELSE IF act = "None" \/ firstPass THEN {FALSE}
    ELSE {TRUE, FALSE}

RolloutStartStates ==
    {<<a, FAFstate[2], c, (k * dD) \div 2>> :
        a \in {dA, FAFstate[1] + 1}, c \in Configs, k \in 0..MaxRolloutHalfSegments}

InitRollout ==
    /\ state \in RolloutStartStates
    /\ call = NoCall
    /\ steps = 0
    /\ d0 = state[4]
    /\ altHalf \in {0, 1}
    /\ RolloutIdle("start")

\* lines 14-17 and, for a state with an entry, 38-40
Begin ==
    /\ pc = "start"
    /\ \E v \in StartChoices(state) :
        /\ pi' = IF altHalf = 0 THEN Looked(<<state>>, 1, TRUE, v) ELSE pi
        /\ IF v # "None"
           THEN /\ pc' = "loop"
                /\ action' = v
                /\ UNCHANGED <<i, oldState>>
           ELSE /\ pc' = "search"
                /\ i' = 0
                /\ oldState' = state
                /\ UNCHANGED action
    /\ UNCHANGED <<state, call, steps, startVars, prevAction, fuelUsed, traceVars, visited>>

\* one pass of the search loop, lines 18-35, and when the loop ends with a
\* state, lines 36-40.  n is the number of states tried in the pass: the
\* n-th is the first with an entry (hit), or none of the four has one.
SearchPass ==
    /\ pc = "search"
    /\ i < MaxSearchPasses
    /\ \E n \in 1..4, hit \in BOOLEAN :
        LET cs == candidates(oldState, i + 1)
        IN  /\ hit \/ n = 4
            /\ \A k \in 1..(n - 1) : "None" \in CandidateChoices(oldState, i + 1, cs[k])
            /\ \E v \in CandidateChoices(oldState, i + 1, cs[n]) :
                /\ (v # "None") = hit
                /\ pi' = LET rec == Recorded(oldState, i + 1, cs, n)
                         IN  Looked(rec, Len(rec), hit, v)
                /\ i' = i + 1
                /\ state' = IF hit THEN cs[n] ELSE state
                /\ IF hit /\ breaks(n)
                   THEN \* break
                        pc' = "loop" /\ action' = v
                   ELSE IF atSearchLimit(i + 1, oldState)
                   THEN \* return None
                        pc' = "failed" /\ UNCHANGED action
                   ELSE IF hit
                   THEN \* the loop condition ends the loop
                        pc' = "loop" /\ action' = v
                   ELSE pc' = "search" /\ UNCHANGED action
    /\ UNCHANGED <<call, steps, startVars, oldState, prevAction, fuelUsed, traceVars, visited>>

\* the first outcome, line 85: [0] of the list returned; [0] of an empty
\* list raises IndexError
firstOutcome(ret) == IF ret = <<>> THEN <<>> ELSE ret[1]

\* one pass of the rollout loop, lines 42-86.  The lists hold the distances
\* state[3] / 1000 in thousandths of a km.  When line 85 raises, the pass
\* ends there with the exception.
LoopPass ==
    /\ pc = "loop"
    /\ loopContinues(state)
    /\ \E v \in PolicyChoices(state), changed \in BOOLEAN :
        LET ret     == succAndProbReward(state, v)
            d       == state[4]
            h       == state[1]
        IN  /\ changed \in IsNotOutcomes(action, v, steps = 0)
            /\ pi' = Looked(<<state>>, 1, TRUE, v)
            /\ prevAction' = action
            /\ action' = v
            /\ EAS' = Append(EAS, state[2])
            /\ TAS' = Append(TAS, rolloutTAS(state))
            /\ velDist' = Append(velDist, d)
            /\ extensionD' = AppendIf(extensionD, v = "extend", d)
            /\ extensionA' = AppendIf(extensionA, v = "extend", h)
            /\ retractionD' = AppendIf(retractionD, v = "retract", d)
            /\ retractionA' = AppendIf(retractionA, v = "retract", h)
            /\ distDec' = AppendIf(AppendIf(distDec, v = "decel", d),
                                   changed /\ action = "decel", d)
            /\ altDec' = AppendIf(AppendIf(altDec, v = "decel", h),
                                  changed /\ action = "decel", h)
            /\ distAcc' = AppendIf(AppendIf(distAcc, v = "accel", d),
                                   changed /\ action = "accel", d)
            /\ altAcc' = AppendIf(AppendIf(altAcc, v = "accel", h),
                                  changed /\ action = "accel", h)
            /\ dist' = AppendIf(AppendIf(dist, OtherAction(v), d),
                                changed /\ OtherAction(action), d)
            /\ alt' = AppendIf(AppendIf(alt, OtherAction(v), h),
                               changed /\ OtherAction(action), h)
            /\ IF firstOutcome(ret) = <<>>
               THEN pc' = "IndexError" /\ UNCHANGED <<state, fuelUsed>>
               ELSE /\ pc' = pc
                    /\ state' = firstOutcome(ret)[1]
                    /\ fuelUsed' = subReward(fuelUsed, firstOutcome(ret)[3])
            /\ call' = [made |-> TRUE, legal |-> v \in LegalActions(state),
                        st |-> state, act |-> v, ret |-> ret]
            /\ steps' = steps + 1
            /\ visited' = Append(visited, <<state, v>>)
    /\ UNCHANGED <<startVars, oldState, i>>

\* the loop ends; add last state to respective list, lines 88-107
LoopExit ==
    /\ pc = "loop"
    /\ ~loopContinues(state)
    /\ pc' = "done"
    /\ EAS' = Append(EAS, state[2])
    /\ TAS' = Append(TAS, rolloutTAS(state))
    /\ velDist' = Append(velDist, state[4])
    /\ extensionD' = AppendIf(extensionD, action = "extend", state[4])
    /\ extensionA' = AppendIf(extensionA, action = "extend", state[1])
    /\ retractionD' = AppendIf(retractionD, action = "retract", state[4])
    /\ retractionA' = AppendIf(retractionA, action = "retract", state[1])
    /\ distDec' = AppendIf(distDec, action = "decel", state[4])
    /\ altDec' = AppendIf(altDec, action = "decel", state[1])
    /\ distAcc' = AppendIf(distAcc, action = "accel", state[4])
    /\ altAcc' = AppendIf(altAcc, action = "accel", state[1])
    /\ dist' = AppendIf(dist, action \notin {"extend", "retract", "decel", "accel"},
                        state[4])
    /\ alt' = AppendIf(alt, action \notin {"extend", "retract", "decel", "accel"},
                       state[1])
    /\ UNCHANGED <<state, call, steps, startVars, pi, oldState, i, action, prevAction,
                   fuelUsed, visited>>

NextRollout == Begin \/ SearchPass \/ LoopPass \/ LoopExit

SpecRollout == InitRollout /\ [][NextRollout]_vars

(***************************************************************************)
(* Properties of the transition function.                                  *)
(***************************************************************************)
TerminalState == FAFstate \o <<0>>

RECURSIVE SumProb(_)
SumProb(ret) == IF ret = <<>> THEN 0 ELSE ret[1][2] + SumProb(Tail(ret))

\* ceil(d / dD)
CeilSegments(d) == (d + dD - 1) \div dD

\* C1: succAndProbReward returns the empty list exactly when the state is
\* the terminal state FAFstate + (0,), whatever the action; for every other
\* state, distance <= 0 included, the list is not empty.
C1_EmptyExactlyAtTerminal ==
    call.made => ((call.ret = <<>>) <=> (call.st = TerminalState))

C1_Witness ==
    /\ call.made
    /\ call.st = TerminalState
    /\ call.act = "climb"
    /\ call.ret = <<>>

\* C2: in a state with distance <= 0 other than the terminal state, every
\* action, legal or not, gives the same single outcome: the terminal state
\* with probability 1.
C2_PastFAFSingleTerminalOutcome ==
    (call.made /\ call.st # TerminalState /\ call.st[4] <= 0) =>
        /\ Len(call.ret) = 1
        /\ call.ret[1][1] = TerminalState
        /\ call.ret[1][2] = 100
        /\ \A a \in ProbeActions : succAndProbReward(call.st, a) = call.ret

C2_Witness ==
    /\ call.made
    /\ ~call.legal
    /\ call.st # TerminalState
    /\ call.st[4] < 0
    /\ call.ret = << <<TerminalState, 100, call.ret[1][3]>> >>

\* C3: in every state reached by legal actions, the probabilities of the
\* outcomes of a legal action sum to 1, unless the state is terminal and
\* the outcome list is empty.
C3_ProbabilitiesSumToOne ==
    (call.made /\ call.legal) =>
        IF call.ret = <<>> THEN call.st = TerminalState
        ELSE SumProb(call.ret) = 100

C3_Witness ==
    /\ call.made
    /\ call.legal
    /\ call.act = "retract"
    /\ Len(call.ret) = 2
    /\ SumProb(call.ret) = 100

\* C4: from a state with distance > 0, every outcome of every action,
\* unrecognized actions included, has the distance of the state minus dD.
C4_DistanceDecreasesByStep ==
    (call.made /\ call.st[4] > 0) =>
        /\ call.ret # <<>>
        /\ \A k \in 1..Len(call.ret) : call.ret[k][1][4] = call.st[4] - dD

C4_Witness ==
    /\ call.made
    /\ call.st[4] > 0
    /\ call.act = "None"
    /\ Len(call.ret) = 1
    /\ call.ret[1][1][4] = call.st[4] - dD

\* C5: started at distance d0 > 0, the terminal state is reached after at
\* most ceil(d0 / dD) + 1 transitions, whatever the actions and outcomes,
\* and the terminal state has no transition.
C5_FiniteHorizon ==
    d0 > 0 =>
        /\ steps <= CeilSegments(d0) + 1
        /\ steps = CeilSegments(d0) + 1 => state = TerminalState
        /\ state # TerminalState => steps <= CeilSegments(d0)
        /\ state = TerminalState =>
               \A a \in ProbeActions : succAndProbReward(state, a) = <<>>

C5_Witness ==
    /\ d0 > 0
    /\ d0 % dD # 0
    /\ steps = CeilSegments(d0) + 1
    /\ state = TerminalState

\* C8: from a state with distance > 0, the first outcome of the list, which
\* the rollout takes, has a strictly greater probability than every other
\* outcome of the list, for every action.
C8_FirstOutcomeMostLikely ==
    (call.made /\ call.st[4] > 0) =>
        \A k \in 2..Len(call.ret) : call.ret[1][2] > call.ret[k][2]

C8_Witness ==
    /\ call.made
    /\ call.st[4] > 0
    /\ call.act = "extend"
    /\ Len(call.ret) = 2
    /\ call.ret[1][2] > call.ret[2][2]

(***************************************************************************)
(* Properties of the rollout, about SpecRollout.                           *)
(***************************************************************************)
\* the policy has an entry for s
HasEntry(s) == s \in DOMAIN pi /\ pi[s] # "None"

\* the lookup of c, perturbed by n from old, was made and missed
Missed(old, n, c) ==
    \/ ~MayHaveEntry(old, n, c)
    \/ c \in DOMAIN pi /\ pi[c] = "None"

\* the k-th of altitude+n, altitude-n, speed+n, speed-n
Perturbed(old, n, k) ==
    IF k = 1 THEN <<old[1] + n, old[2], old[3], old[4]>>
    ELSE IF k = 2 THEN <<old[1] - n, old[2], old[3], old[4]>>
    ELSE IF k = 3 THEN <<old[1], old[2] + n, old[3], old[4]>>
    ELSE <<old[1], old[2] - n, old[3], old[4]>>

RECURSIVE SumCost(_)
SumCost(vs) ==
    IF vs = <<>> THEN 0
    ELSE getCost(vs[1][1], vs[1][2]) + SumCost(Tail(vs))

\* C6: the rollout loop makes exactly ceil(d / dD) transitions from a start
\* state at distance d >= 0, whatever the policy and also when the policy
\* has no entry for a state on the way: while it runs it has made fewer,
\* every state it flew from was at a distance > 0, and it exits with the
\* first state at a distance <= 0.
C6_LoopMakesCeilTransitions ==
    /\ d0 >= 0
    /\ \A k \in 1..Len(visited) :
        visited[k][1][4] > 0 /\ visited[k][1][4] = state[4] + (steps - k + 1) * dD
    /\ Len(visited) = steps
    /\ (pc = "loop" /\ state[4] > 0) => steps < CeilSegments(d0)
    /\ (pc = "loop" /\ state[4] <= 0) => steps = CeilSegments(d0)
    /\ pc = "done" => (steps = CeilSegments(d0) /\ state[4] <= 0)
    /\ pc \in {"loop", "done"} => state[4] = d0 - steps * dD

C6_Witness ==
    /\ pc = "done"
    /\ d0 = 1500
    /\ steps = 2
    /\ state[4] = -500
    /\ visited[1][2] = "descend"
    /\ visited[2][2] = "None"

\* C7: the fuel the rollout reports is the sum of getCost(state, action)
\* over the steps taken, the negated rewards of the transitions applied;
\* always level from the distance 2000 is two steps and the sum of the two
\* level costs.
C7_FuelIsSumOfStepCosts ==
    /\ fuelUsed = <<0, SumCost(visited)>>
    /\ (call.made /\ steps > 0) =>
         /\ call.st = visited[steps][1]
         /\ \A k \in 1..Len(call.ret) :
              call.ret[k][3] = <<0, -getCost(call.st, call.act)>>

C7_Witness ==
    /\ pc = "done"
    /\ d0 = 2000
    /\ steps = 2
    /\ visited[1][2] = "level"
    /\ visited[2][2] = "level"
    /\ visited[1][1] = <<dA, FAFstate[2], 0, 2000>>
    /\ visited[2][1] = <<dA, FAFstate[2], 0, 1000>>
    /\ fuelUsed[2] = getCost(<<dA, FAFstate[2], 0, 2000>>, "level")
                     + getCost(<<dA, FAFstate[2], 0, 1000>>, "level")
    /\ fuelUsed[2] > 0

\* C9: when the start state has no policy entry, the state the search hands
\* to the rollout has an entry and is the start state with only the
\* altitude or only the speed changed by i >= 1; every state tried at a
\* smaller perturbation, and every state tried before it at i in the order
\* altitude+i, altitude-i, speed+i, speed-i, has no entry; while the search
\* goes on, and when it gives up, no state tried so far has one; config and
\* distance are those of the start state.
C9_SearchResolvesToNearestEntry ==
    /\ (oldState # <<>> /\ pc \in {"loop", "done"} /\ steps = 0) =>
         /\ i >= 1
         /\ HasEntry(state)
         /\ ~HasEntry(oldState)
         /\ state[3] = oldState[3] /\ state[4] = oldState[4]
         /\ \E k \in 1..4 :
              /\ state = Perturbed(oldState, i, k)
              /\ \A m \in 1..(k - 1) : Missed(oldState, i, Perturbed(oldState, i, m))
         /\ \A n \in 1..(i - 1), m \in 1..4 :
              Missed(oldState, n, Perturbed(oldState, n, m))
    /\ (pc \in {"search", "failed"} /\ i >= 1) =>
         /\ state = oldState
         /\ \A m \in 1..4 : Missed(oldState, i, Perturbed(oldState, i, m))

C9_Witness ==
    /\ pc = "loop"
    /\ oldState = <<1001, 70, 0, 0>>
    /\ state = <<1000, 70, 0, 0>>
    /\ i = 1
    /\ action # "None"
    /\ \A s \in DOMAIN pi : (pi[s] # "None") = (s = <<1000, 70, 0, 0>>)

\* C10: the search loop ends after at most max(altitude, speed) passes,
\* from every start state without an entry (altitude > 0, speed > 0) and
\* for every policy: while it runs, its pass count i is below that maximum,
\* it reports failure only at the maximum, and otherwise it has ended with
\* a state that has an entry.  The altitude is oldState[1] + altHalf / 2,
\* and the comparisons are of the doubles.
C10_SearchEndsWithinLimit ==
    oldState # <<>> =>
        /\ oldState[1] > 0 /\ oldState[2] > 0
        /\ 2 * i <= Max(2 * oldState[1] + altHalf, 2 * oldState[2])
        /\ pc \in {"search", "loop", "done", "failed"}
        /\ pc = "search" => 2 * i < Max(2 * oldState[1] + altHalf, 2 * oldState[2])
        /\ pc = "failed" => 2 * i = Max(2 * oldState[1] + altHalf, 2 * oldState[2])
        /\ pc \in {"loop", "done"} => (i >= 1 /\ (steps = 0 => HasEntry(state)))

\* C11: the rollout gives up with 'Could not find similar initial state'
\* only when the search is exhausted: i has reached max(altitude, speed),
\* no state the search tried, at any perturbation 1..i, has a policy entry,
\* and nothing was simulated or recorded.  A search that found an entry
\* hands a state with an entry to the rollout loop and never gives up.
C11_FailureOnlyWhenExhausted ==
    /\ pc = "failed" =>
         /\ 2 * i = Max(2 * oldState[1] + altHalf, 2 * oldState[2])
         /\ \A s \in DOMAIN pi : pi[s] = "None"
         /\ \A n \in 1..i, m \in 1..4 :
              Missed(oldState, n, Perturbed(oldState, n, m))
         /\ steps = 0 /\ visited = <<>> /\ velDist = <<>> /\ fuelUsed = <<0, 0>>
    /\ (oldState # <<>> /\ \E s \in DOMAIN pi : pi[s] # "None") =>
         /\ pc \in {"loop", "done"}
         /\ steps = 0 => HasEntry(state)
         /\ steps > 0 => HasEntry(visited[1][1])

C11_Witness ==
    /\ pc = "failed"
    /\ altHalf = 0
    /\ oldState = <<dA, FAFstate[2], 0, 1000>>
    /\ i = FAFstate[2]
    /\ <<dA + 1, FAFstate[2], 0, 1000>> \in DOMAIN pi
    /\ <<dA, FAFstate[2] - 2, 0, 1000>> \in DOMAIN pi
    /\ <<dA + FAFstate[2], FAFstate[2], 0, 1000>> \in DOMAIN pi

\* lnew is l with k more entries, all x
Grew(l, lnew, k, x) ==
    /\ Len(lnew) = Len(l) + k
    /\ \A j \in 1..Len(lnew) : lnew[j] = IF j <= Len(l) THEN l[j] ELSE x

Count(cond) == IF cond THEN 1 ELSE 0

\* a pass of the rollout loop in which the action looked up differs from
\* the action of the previous pass
ChangeStep == steps' = steps + 1 /\ action' # action

\* C12 as stated: at a change of action the (distance, altitude) of the
\* state is appended to the bucket of the previous action and to that of
\* the new action, the flap buckets included.
C12_Original ==
    [][(ChangeStep /\ action # "None" /\ action' # "None") =>
         /\ action \in {"extend"} => Grew(extensionD, extensionD', 1, state[4])
         /\ action \in {"retract"} => Grew(retractionD, retractionD', 1, state[4])
         /\ action = "decel" => Grew(distDec, distDec', 1, state[4])
         /\ action = "accel" => Grew(distAcc, distAcc', 1, state[4])
         /\ action \in {"level", "climb", "descend"} =>
              Grew(dist, dist', 1 + Count(action' \in {"level", "climb", "descend", "extend", "retract"}), state[4])]_vars

\* C12, amended: at a change of action the (distance, altitude) of the
\* state is appended to the line of the previous action and to the line of
\* the new action, where the line of decel is distDec / altDec, the line of
\* accel is distAcc / altAcc, and the line of every other action, extend
\* and retract included, is dist / alt; the flap buckets get the state only
\* when extend or retract is the action looked up.
C12_ChangeRecordedInBothLines ==
    [][ChangeStep =>
         /\ Grew(distDec, distDec', Count(action' = "decel") + Count(action = "decel"), state[4])
         /\ Grew(altDec, altDec', Count(action' = "decel") + Count(action = "decel"), state[1])
         /\ Grew(distAcc, distAcc', Count(action' = "accel") + Count(action = "accel"), state[4])
         /\ Grew(altAcc, altAcc', Count(action' = "accel") + Count(action = "accel"), state[1])
         /\ Grew(dist, dist', Count(action' \notin {"decel", "accel"})
                               + Count(action \notin {"decel", "accel"}), state[4])
         /\ Grew(alt, alt', Count(action' \notin {"decel", "accel"})
                             + Count(action \notin {"decel", "accel"}), state[1])
         /\ Grew(extensionD, extensionD', Count(action' = "extend"), state[4])
         /\ Grew(extensionA, extensionA', Count(action' = "extend"), state[1])
         /\ Grew(retractionD, retractionD', Count(action' = "retract"), state[4])
         /\ Grew(retractionA, retractionA', Count(action' = "retract"), state[1])]_vars

\* level, then decel: the state at the change is in both lines
C12_Witness ==
    /\ steps = 2
    /\ visited[1][2] = "level" /\ visited[2][2] = "decel"
    /\ visited[2][1] = <<dA, FAFstate[2], 3, 1000>>
    /\ dist = <<2000, 1000>> /\ alt = <<dA, dA>>
    /\ distDec = <<1000>> /\ altDec = <<dA>>

\* C13: when the loop has ended, the final state is appended to the
\* buckets the loop body appends a state to for the same action: the
\* extension bucket for extend, the retraction bucket for retract, and, by
\* the body's second test, distDec / altDec for decel, distAcc / altAcc for
\* accel and dist / alt for every other action, extend and retract included.
C13_FinalAppendMatchesLoopRule ==
    [][(pc = "loop" /\ pc' = "done") =>
         /\ Grew(extensionD, extensionD', Count(action = "extend"), state[4])
         /\ Grew(extensionA, extensionA', Count(action = "extend"), state[1])
         /\ Grew(retractionD, retractionD', Count(action = "retract"), state[4])
         /\ Grew(retractionA, retractionA', Count(action = "retract"), state[1])
         /\ Grew(distDec, distDec', Count(action = "decel"), state[4])
         /\ Grew(altDec, altDec', Count(action = "decel"), state[1])
         /\ Grew(distAcc, distAcc', Count(action = "accel"), state[4])
         /\ Grew(altAcc, altAcc', Count(action = "accel"), state[1])
         /\ Grew(dist, dist', Count(action \notin {"decel", "accel"}), state[4])
         /\ Grew(alt, alt', Count(action \notin {"decel", "accel"}), state[1])]_vars

\* C17: the velocity-profile trace has one entry per visited state, the
\* final one included, in the order of the visits, and the true airspeed of
\* an entry is the conversion getCost applies to that state,
\* v * sqrt(rho(0) / rho(alt)).
C17_TraceIsTrueAirspeed ==
    LET seen == [k \in 1..Len(visited) |-> visited[k][1]]
                    \o (IF pc = "done" THEN <<state>> ELSE <<>>)
    IN  /\ Len(TAS) = Len(seen) /\ Len(velDist) = Len(seen) /\ Len(EAS) = Len(seen)
        /\ \A k \in 1..Len(seen) :
             /\ k <= Len(TAS) =>
                  TAS[k] = trueAirspeed(getRho(0), getRho(seen[k][1]), seen[k][2])
             /\ k <= Len(velDist) => velDist[k] = seen[k][4]
             /\ k <= Len(EAS) => EAS[k] = seen[k][2]

\* C19: the rollout calls succAndProbReward only for states with distance
\* > 0: the list it gets is never empty, line 85 never raises, and no
\* overshoot penalty (the first limb of a reward) enters the fuel.
C19_LoopNeverCallsPastFAF ==
    /\ pc # "IndexError"
    /\ call.made =>
         /\ call.st[4] > 0
         /\ call.ret # <<>>
         /\ call.ret[1][3][1] = 0
    /\ \A k \in 1..Len(visited) : visited[k][1][4] > 0
    /\ fuelUsed[1] = 0

\* the loop has ended at distance 0 in a state that is not the terminal
\* state, after a pass, without the overshoot call
C19_Witness ==
    /\ pc = "done"
    /\ steps = 1
    /\ state[4] = 0
    /\ state # TerminalState
    /\ call.st[4] = dD
    /\ fuelUsed[1] = 0 /\ fuelUsed[2] > 0

(***************************************************************************)
(* Invariants of the states reached by legal actions, about Spec.          *)
(***************************************************************************)
\* the speed of s is within [minSpeed[config] - slack, maxSpeed[config] + slack]
SpeedWithin(s, slack) ==
    /\ minSpeed[s[3] + 1] - slack <= s[2]
    /\ s[2] <= maxSpeed[s[3] + 1] + slack

\* C14 as stated: every state reached from a state with speed in
\* [minSpeed[config], maxSpeed[config]] by legal actions, whatever their
\* outcomes, has its speed in [minSpeed[config], maxSpeed[config]].
C14_Original == SpeedWithin(state, 0)

\* C14, amended: every state reached from a state with speed in
\* [minSpeed[config], maxSpeed[config]] by legal actions, whatever their
\* outcomes, has its speed in [minSpeed[config] - 1, maxSpeed[config] + 1],
\* the 1 being the jitter of accel and decel, and so a speed > 0; the first
\* outcome of a legal action from a state within the bounds is within the
\* bounds.
C14_SpeedWithinJitterOfBounds ==
    /\ SpeedWithin(state, 1)
    /\ state[2] > 0
    /\ (call.made /\ call.legal /\ call.st[4] > 0 /\ SpeedWithin(call.st, 0)) =>
         /\ SpeedWithin(call.ret[1][1], 0)
         /\ \A k \in 1..Len(call.ret) : SpeedWithin(call.ret[k][1], 1)

\* a decel from minSpeed + dS has ended one below the minimum
C14_Witness ==
    /\ call.made /\ call.legal /\ call.act = "decel"
    /\ call.st[4] > 0
    /\ call.st[2] = minSpeed[call.st[3] + 1] + dS
    /\ state = call.ret[3][1]
    /\ state[2] = minSpeed[state[3] + 1] - 1

\* C15: every state reached with distance > 0 from a state with altitude
\* > 0 by legal actions, whatever their outcomes, has altitude > 0.
C15_AltitudePositive == state[4] > 0 => state[1] > 0

\* a call that flies a segment: the state is not the terminal state and
\* its distance is > 0
SegmentCall == call.made /\ call.st # TerminalState /\ call.st[4] > 0

\* C16: all outcomes of one call of succAndProbReward for a state with
\* distance > 0 carry the same reward, the negated getCost(state, action)
\* of the state the call was made for, whatever the action.
C16_OneRewardPerCall ==
    SegmentCall =>
        /\ Len(call.ret) >= 1
        /\ \A k \in 1..Len(call.ret) :
             /\ call.ret[k][3] = call.ret[1][3]
             /\ call.ret[k][3][1] = 0
             /\ call.ret[k][3][2] = 0 - getCost(call.st, call.act)

C16_Witness ==
    /\ SegmentCall
    /\ call.act = "descend"
    /\ Len(call.ret) = 3
    /\ call.ret[1][1] # call.ret[3][1]
    /\ call.ret[3][3][2] < 0

\* C18: an action changes only its own dimension besides the distance:
\* climb and descend keep speed and config, accel and decel keep altitude
\* and config, extend and retract keep altitude and speed and move the
\* config by 0 or by 1 in their direction, and level or any other action
\* has one outcome that keeps altitude, speed and config.
C18_ActionChangesOwnDimension ==
    SegmentCall =>
        \A k \in 1..Len(call.ret) :
            LET new == call.ret[k][1]
                old == call.st
            IN  /\ call.act \in {"climb", "descend"} =>
                     (new[2] = old[2] /\ new[3] = old[3])
                /\ call.act \in {"accel", "decel"} =>
                     (new[1] = old[1] /\ new[3] = old[3])
                /\ call.act = "extend" =>
                     (new[1] = old[1] /\ new[2] = old[2]
                        /\ new[3] \in {old[3], old[3] + 1})
                /\ call.act = "retract" =>
                     (new[1] = old[1] /\ new[2] = old[2]
                        /\ new[3] \in {old[3], old[3] - 1})
                /\ call.act \in {"level", "None"} =>
                     (Len(call.ret) = 1 /\ new[1] = old[1] /\ new[2] = old[2]
                        /\ new[3] = old[3])

C18_Witness ==
    /\ SegmentCall
    /\ call.act = "accel"
    /\ Len(call.ret) = 3
    /\ call.ret[2][1][2] = call.st[2] + dS + 1
    /\ call.ret[2][1][1] = call.st[1]

\* C20: every state reached by legal actions, whatever their outcomes, has
\* its config in 0..len(minSpeed)-1, and so has every outcome of a legal
\* action: minSpeed[config], maxSpeed[config] and cDp[config] exist.
C20_ConfigInRange ==
    /\ state[3] \in 0..(Len(minSpeed) - 1)
    /\ state[3] + 1 \in DOMAIN minSpeed \cap DOMAIN maxSpeed \cap DOMAIN cDp
    /\ (call.made /\ call.legal) =>
         \A k \in 1..Len(call.ret) : call.ret[k][1][3] \in 0..(Len(minSpeed) - 1)

\* extended to the last configuration, and retracted from the first but one
C20_Witness ==
    /\ call.made /\ call.legal /\ call.st[4] > 0
    /\ call.act = "extend"
    /\ call.st[3] = Len(minSpeed) - 2
    /\ state = call.ret[1][1]
    /\ state[3] = Len(minSpeed) - 1
    /\ "extend" \notin {actions(state)[k] : k \in 1..Len(actions(state))}

\* C21: for every state with distance > 0 and every action, the altitude
\* change getCost charges for (altAfter - alt: +dA for climb, minus the
\* descend step for descend, 0 otherwise) is the altitude change of the
\* first outcome succAndProbReward returns for the same state and action.
C21_CostAndTransitionAgreeOnAltitude ==
    SegmentCall =>
        altAfter(call.st, call.act) - call.st[1]
            = call.ret[1][1][1] - call.st[1]

=============================================================================
